---- MODULE Spec2Model ----
(***************************************************************************)
(* A model of the nufs filesystem (src/nufs.c, src/blocks.c, src/bitmap.c) *)
(* The image is scaled down: the block size, the number of data blocks,    *)
(* the inode table and the per-file block map are small, and the layout    *)
(* of the image (bitmap block, inode header block, inode record blocks,    *)
(* data blocks) is derived from them the way the program's layout is       *)
(* derived from its own sizes.                                             *)
(***************************************************************************)
EXTENDS Integers, Sequences, FiniteSets, TLC

\* ------------------------------------------------------------------ sizes
\* scaled sizes of the image (4096, 128, 128, 256 and 808 in the program)
BLOCK_SIZE == 2
MAX_BLOCKS_PER_FILE == 2
MAX_FILES == 3
PATH_SIZE == 7
SizeofInode == 1
NumDataBlocks == 3
\* bounds of the exploration
MaxOps == 3
MaxOpsData == 4
MaxOpsTable == 3
MaxOpsFill == 3
MaxOpsDir == 3
MaxOpsBlocks == 2
MaxOpsBits == 1
MaxOpsLoop == 1
MaxTime == 1

INODE_META_BLOCK == 1
FIRST_INODE_BLOCK == 2
S_IFREG == 32768
S_IFDIR == 16384
Perm0644 == 420
Perm0755 == 493

Min(a, b) == IF a < b THEN a ELSE b
CeilDiv(a, b) == (a + b - 1) \div b

INODES_PER_BLOCK == BLOCK_SIZE \div SizeofInode
LAST_INODE_BLOCK == FIRST_INODE_BLOCK + CeilDiv(MAX_FILES, INODES_PER_BLOCK) - 1
FIRST_DATA_BLOCK == LAST_INODE_BLOCK + 1
BLOCK_COUNT == FIRST_DATA_BLOCK + NumDataBlocks

Slots == 0 .. (MAX_FILES - 1)
BlockIdx == 0 .. (MAX_BLOCKS_PER_FILE - 1)
ByteOff == 0 .. (BLOCK_SIZE - 1)
\* the blocks whose bytes the model keeps: the bitmap block and the data blocks
ByteBlocks == {0} \cup (FIRST_DATA_BLOCK .. (BLOCK_COUNT - 1))
MetaBlocks == INODE_META_BLOCK .. LAST_INODE_BLOCK

\* ------------------------------------------------------------------ modes
RECURSIVE Pow2(_)
Pow2(n) == IF n = 0 THEN 1 ELSE 2 * Pow2(n - 1)

\* mode & bit, for a single-bit mask
HasBit(m, bit) == (m \div bit) % 2 = 1
\* mode | bit
OrBit(m, bit) == IF HasBit(m, bit) THEN m ELSE m + bit

\* ------------------------------------------------------------------ bitmap
bitmap_get(bm, i) ==
    IF i < 0 THEN 0 ELSE (bm[i \div 8] \div Pow2(i % 8)) % 2

\* bitmap_put that clears the whole byte of bit i when v is 0
bitmap_put_clearbyte(bm, i, v) ==
    IF i < 0 THEN bm
    ELSE IF v # 0
         THEN [bm EXCEPT ![i \div 8] = OrBit(@, Pow2(i % 8))]
         ELSE [bm EXCEPT ![i \div 8] = 0]

bitmap_put(bm, i, v) ==
    IF i < 0 THEN bm
    ELSE IF v # 0
         THEN [bm EXCEPT ![i \div 8] = OrBit(@, Pow2(i % 8))]
         ELSE [bm EXCEPT ![i \div 8] =
                  IF HasBit(@, Pow2(i % 8)) THEN @ - Pow2(i % 8) ELSE @]

\* ------------------------------------------------------------------ inodes
ZeroBlock == [o \in ByteOff |-> 0]

ZeroInode ==
    [path |-> << >>, size |-> 0, blocks |-> [j \in BlockIdx |-> 0],
     block_count |-> 0, mode |-> 0, atime |-> 0, mtime |-> 0, ctime |-> 0]

\* strncpy(dst, src, sizeof(dst) - 1); dst[sizeof(dst) - 1] = '\0'
Strncpy(src) == SubSeq(src, 1, Min(Len(src), PATH_SIZE - 1))

RECURSIVE TrimSlashes(_)
TrimSlashes(p) ==
    IF Len(p) > 1 /\ p[Len(p)] = "/" THEN TrimSlashes(SubSeq(p, 1, Len(p) - 1))
    ELSE p

\* the path inode_lookup compares with
NormalizedPath(path) == TrimSlashes(Strncpy(path))

\* index of the first inode with this path, or -1 (NULL)
inode_lookup(fs, path) ==
    LET hits == {i \in Slots : i < fs.inode_count
                               /\ fs.inodes[i].path = NormalizedPath(path)}
    IN IF hits = {} THEN -1
       ELSE CHOOSE i \in hits : \A k \in hits : i <= k

\* ------------------------------------------------------------------ blocks
\* blocks_get_block: a block number that names no block gives NULL
ValidBlock(bnum) == bnum >= 0 /\ bnum < BLOCK_COUNT

\* the inode records a byte range of an inode record block covers
RecordsTouched(bnum, off, n) ==
    {(bnum - FIRST_INODE_BLOCK) * INODES_PER_BLOCK + k : k \in
        {k \in 0 .. (INODES_PER_BLOCK - 1) :
            off < (k + 1) * SizeofInode /\ k * SizeofInode < off + n}}

\* does a store of n > 0 bytes at off into metadata block bnum change bytes
\* that load_inodes reads (the stored count, or a record below it)
HitsLiveMeta(fs, bnum, off, n) ==
    IF bnum = INODE_META_BLOCK THEN off = 0
    ELSE \E r \in RecordsTouched(bnum, off, n) : r < fs.meta.inode_count

\* what a store of n > 0 bytes at off into metadata block bnum overwrites:
\* -1 for the stored count, r for inode record r
MetaHit(bnum, off, n) ==
    IF bnum = INODE_META_BLOCK THEN (IF off = 0 THEN {-1} ELSE {})
    ELSE RecordsTouched(bnum, off, n) \cap Slots

\* memcpy(block + off, bytes, Len(bytes)) on the mapped image
StoreBytes(fs, bnum, off, bytes) ==
    IF Len(bytes) = 0 THEN fs
    ELSE IF bnum \in ByteBlocks
    THEN [fs EXCEPT !.disk[bnum] =
            [o \in ByteOff |->
                IF o >= off /\ o < off + Len(bytes) THEN bytes[o - off + 1]
                ELSE @[o]]]
    ELSE [fs EXCEPT !.meta.scribbled =
                        @ \/ HitsLiveMeta(fs, bnum, off, Len(bytes)),
                    !.meta.hit = @ \cup MetaHit(bnum, off, Len(bytes))]

ZeroBytes(n) == [i \in 1 .. n |-> 0]

\* FirstFree scanning from BLOCK_COUNT - 1 downward
FirstFree_downward(bbm) ==
    LET free == {i \in FIRST_DATA_BLOCK .. (BLOCK_COUNT - 1) : bitmap_get(bbm, i) = 0}
    IN IF free = {} THEN -1 ELSE CHOOSE i \in free : \A k \in free : i >= k

\* the lowest block of [FIRST_DATA_BLOCK, BLOCK_COUNT) whose bit is 0
FirstFree(bbm) ==
    LET free == {i \in FIRST_DATA_BLOCK .. (BLOCK_COUNT - 1) : bitmap_get(bbm, i) = 0}
    IN IF free = {} THEN -1 ELSE CHOOSE i \in free : \A k \in free : i <= k

alloc_block(fs) ==
    LET i == FirstFree(fs.disk[0])
    IN IF i < 0 THEN [fs |-> fs, ret |-> -1]
       ELSE [fs  |-> StoreBytes([fs EXCEPT !.disk[0] = bitmap_put(@, i, 1)],
                                i, 0, ZeroBytes(BLOCK_SIZE)),
             ret |-> i]

free_block(fs, bnum) ==
    IF bnum <= 0 \/ bnum >= BLOCK_COUNT THEN fs
    ELSE IF bitmap_get(fs.disk[0], bnum) # 0
         THEN StoreBytes([fs EXCEPT !.disk[0] = bitmap_put(@, bnum, 0)],
                         bnum, 0, ZeroBytes(BLOCK_SIZE))
         ELSE fs

\* ------------------------------------------------------------------ metadata
MetaCapacity == (LAST_INODE_BLOCK - FIRST_INODE_BLOCK + 1) * INODES_PER_BLOCK

save_inodes(fs) ==
    [fs EXCEPT !.meta =
        [inode_count |-> fs.inode_count,
         inodes      |-> [i \in Slots |->
                            IF i < fs.inode_count /\ i < MetaCapacity
                            THEN fs.inodes[i] ELSE fs.meta.inodes[i]],
         scribbled   |-> FALSE,
         hit         |-> {}]]

\* the in-memory table load_inodes builds from the image
load_inodes(meta) ==
    [inode_count |-> meta.inode_count,
     inodes      |-> [i \in Slots |->
                        IF i < meta.inode_count /\ i < MetaCapacity
                        THEN meta.inodes[i] ELSE ZeroInode]]

inode_create(fs, path, mode, now) ==
    IF fs.inode_count >= MAX_FILES THEN [fs |-> fs, node |-> -1]
    ELSE LET n == fs.inode_count
             f1 == [fs EXCEPT !.inode_count = n + 1,
                              !.inodes[n] = [@ EXCEPT !.path = Strncpy(path),
                                                      !.size = 0,
                                                      !.block_count = 0,
                                                      !.mode = mode,
                                                      !.atime = now,
                                                      !.mtime = now,
                                                      !.ctime = now]]
         IN [fs |-> save_inodes(f1), node |-> n]

\* inode_add_block once alloc_block has answered a
add_allocated(fs, idx, a) ==
    IF a.ret < 0 THEN [fs |-> fs, ret |-> -1]
    ELSE LET bc == a.fs.inodes[idx].block_count
         IN [fs  |-> save_inodes([a.fs EXCEPT !.inodes[idx].blocks[bc] = a.ret,
                                              !.inodes[idx].block_count = bc + 1]),
             ret |-> a.ret]

inode_add_block(fs, idx) ==
    IF fs.inodes[idx].block_count >= MAX_BLOCKS_PER_FILE THEN [fs |-> fs, ret |-> -1]
    ELSE add_allocated(fs, idx, alloc_block(fs))

\* ------------------------------------------------------------------ upcalls
\* Each upcall is an operator from the filesystem state fs (the in-memory
\* table and the image) and its arguments to the state after it and what it
\* returns: err is "OK" or the name of the negated errno, ret the count.
Reply(fs, err, ret) == [fs |-> fs, err |-> err, ret |-> ret]

nufs_rename(fs, from, to, now) ==
    LET idx == inode_lookup(fs, from)
    IN IF idx < 0 THEN Reply(fs, "ENOENT", 0)
       ELSE IF inode_lookup(fs, to) >= 0 THEN Reply(fs, "EEXIST", 0)
       ELSE IF Len(to) >= PATH_SIZE THEN Reply(fs, "ENAMETOOLONG", 0)
       ELSE Reply(save_inodes([fs EXCEPT !.inodes[idx].path = Strncpy(to),
                                         !.inodes[idx].mtime = now,
                                         !.inodes[idx].ctime = now]),
                  "OK", 0)

\* nufs_mknod without its checks of inode_count and of inode_create's result
nufs_mknod_unchecked(fs, path, mode, now) ==
    IF Len(path) >= PATH_SIZE THEN Reply(fs, "ENAMETOOLONG", 0)
    ELSE Reply(save_inodes(inode_create(fs, path,
                               IF mode # 0 THEN mode ELSE S_IFREG + Perm0644,
                               now).fs),
               "OK", 0)

nufs_mknod(fs, path, mode, now) ==
    IF fs.inode_count >= MAX_FILES THEN Reply(fs, "ENOSPC", 0)
    ELSE IF Len(path) >= PATH_SIZE THEN Reply(fs, "ENAMETOOLONG", 0)
    ELSE LET c == inode_create(fs, path,
                               IF mode # 0 THEN mode ELSE S_IFREG + Perm0644, now)
         IN IF c.node < 0 THEN Reply(fs, "ENOSPC", 0)
            ELSE Reply(save_inodes(c.fs), "OK", 0)

nufs_mkdir(fs, path, mode, now) ==
    IF inode_lookup(fs, path) >= 0 THEN Reply(fs, "EEXIST", 0)
    ELSE LET c == inode_create(fs, path, OrBit(mode, S_IFDIR), now)
         IN IF c.node < 0 THEN Reply(fs, "ENOMEM", 0)
            ELSE Reply(save_inodes([c.fs EXCEPT !.inodes[c.node].size = 0]),
                       "OK", 0)

RECURSIVE FreeBlocks(_, _, _)
\* the loop of nufs_unlink over blocks[i], i in [from, block_count)
FreeBlocks(fs, idx, i) ==
    IF i >= fs.inodes[idx].block_count THEN fs
    ELSE FreeBlocks(IF fs.inodes[idx].blocks[i] >= 0
                    THEN free_block(fs, fs.inodes[idx].blocks[i]) ELSE fs,
                    idx, i + 1)

\* RemoveSlot without the memset of the vacated last slot
RemoveSlotNoClear(fs, index) ==
    [fs EXCEPT !.inodes = [i \in Slots |->
                              IF i >= index /\ i < fs.inode_count - 1
                              THEN fs.inodes[i + 1]
                              ELSE fs.inodes[i]],
               !.inode_count = fs.inode_count - 1]

\* memmove of the slots above index down by one, memset of the last slot
RemoveSlot(fs, index) ==
    [fs EXCEPT !.inodes = [i \in Slots |->
                              IF i = fs.inode_count - 1 THEN ZeroInode
                              ELSE IF i >= index /\ i < fs.inode_count - 1
                              THEN fs.inodes[i + 1]
                              ELSE fs.inodes[i]],
               !.inode_count = fs.inode_count - 1]

\* nufs_unlink without the check for a directory
nufs_unlink_nodircheck(fs, path) ==
    LET idx == inode_lookup(fs, path)
    IN IF idx < 0 THEN Reply(fs, "ENOENT", 0)
       ELSE Reply(save_inodes(RemoveSlot(FreeBlocks(fs, idx, 0), idx)), "OK", 0)

nufs_unlink(fs, path) ==
    LET idx == inode_lookup(fs, path)
    IN IF idx < 0 THEN Reply(fs, "ENOENT", 0)
       ELSE IF HasBit(fs.inodes[idx].mode, S_IFDIR) THEN Reply(fs, "EISDIR", 0)
       ELSE Reply(save_inodes(RemoveSlot(FreeBlocks(fs, idx, 0), idx)), "OK", 0)

\* ------------------------------------------------------------------ readdir
\* strchr(name, '/') == NULL
NoSlash(name) == \A j \in 1 .. Len(name) : name[j] # "/"

\* does the loop body call filler for the inode path ip when path is listed
Emits(ip, path) ==
    IF path = <<"/">>
    THEN Len(ip) > 1 /\ NoSlash(Tail(ip))
    ELSE /\ Len(ip) > Len(path)
         /\ SubSeq(ip, 1, Len(path)) = path
         /\ ip[Len(path) + 1] = "/"
         /\ NoSlash(SubSeq(ip, Len(path) + 2, Len(ip)))

\* the name it passes
EntryName(ip, path) ==
    IF path = <<"/">> THEN Tail(ip) ELSE SubSeq(ip, Len(path) + 2, Len(ip))

RECURSIVE readdir_loop(_, _, _, _)
\* the for loop of nufs_readdir from slot i on; names is what filler got
readdir_loop(fs, path, i, names) ==
    IF i >= fs.inode_count THEN names
    ELSE readdir_loop(fs, path, i + 1,
            IF Emits(fs.inodes[i].path, path)
            THEN Append(names, EntryName(fs.inodes[i].path, path))
            ELSE names)

nufs_readdir(fs, path) ==
    [err |-> "OK", names |-> readdir_loop(fs, path, 0, <<<<".">>, <<".", ".">>>>)]

\* the rmdir entry of the operations table: nufs_init_ops zeroes the table
\* and sets no rmdir, so the bridge answers the upcall with -ENOSYS and the
\* program is not entered
ops_rmdir(fs, path) == Reply(fs, "ENOSYS", 0)

\* ------------------------------------------------------------------ write, read
\* blocks[block_index]: an index at or above MAX_BLOCKS_PER_FILE reads past
\* the array, and the value read there is ub[block_index], any int the build
\* may leave at that place
BlockAt(fs, idx, block_index, ub) ==
    IF block_index < MAX_BLOCKS_PER_FILE THEN fs.inodes[idx].blocks[block_index]
    ELSE ub[block_index]

RECURSIVE write_loop(_, _, _, _, _, _, _)
\* one iteration from the inode_add_block check on: fs is the state before
\* it and added what it gave (ret 0 when no block was needed)
write_copy(fs, added, idx, buf, size, offset, ub, acc) ==
    LET block_index  == (offset + acc.tw) \div BLOCK_SIZE
        block_offset == (offset + acc.tw) % BLOCK_SIZE
        to_write     == Min(BLOCK_SIZE - block_offset, size - acc.tw)
    IN IF added.ret < 0 THEN [fs |-> fs, how |-> "nospace", acc |-> acc]
       ELSE
       LET block_num == BlockAt(added.fs, idx, block_index, ub)
           acc1 == [acc EXCEPT !.oob = @ \/ block_index >= MAX_BLOCKS_PER_FILE]
       IN IF ~ValidBlock(block_num)
          THEN [fs |-> added.fs, how |-> "eio", acc |-> acc1]
          ELSE write_loop(
                 StoreBytes(added.fs, block_num, block_offset,
                            SubSeq(buf, acc.tw + 1, acc.tw + to_write)),
                 idx, buf, size, offset, ub,
                 [acc1 EXCEPT !.tw = acc.tw + to_write,
                              !.copied = @ \cup {block_num}])

\* the while loop of nufs_write; acc carries total_written (tw), the blocks
\* memcpy stored caller bytes into (copied), and whether blocks[] was read
\* past its end (oob).  how: "end" the loop ran to its end, "nospace"
\* inode_add_block failed, "eio" blocks_get_block gave NULL
write_loop(fs, idx, buf, size, offset, ub, acc) ==
    IF acc.tw >= size THEN [fs |-> fs, how |-> "end", acc |-> acc]
    ELSE write_copy(fs,
                    IF (offset + acc.tw) \div BLOCK_SIZE >= fs.inodes[idx].block_count
                    THEN inode_add_block(fs, idx)
                    ELSE [fs |-> fs, ret |-> 0],
                    idx, buf, size, offset, ub, acc)

NoAcc == [tw |-> 0, copied |-> {}, oob |-> FALSE]

\* how: the way the loop was left, "none" when it was not reached
WReply(fs, err, ret, idx, acc, how) ==
    [fs |-> fs, err |-> err, ret |-> ret, idx |-> idx, acc |-> acc, how |-> how]

\* write_end with -ENOSPC for every failed inode_add_block
write_end_enospc(w, idx, offset, now) ==
    IF w.how = "nospace" THEN WReply(w.fs, "ENOSPC", 0, idx, w.acc, w.how)
    ELSE IF w.how = "eio" THEN WReply(w.fs, "EIO", 0, idx, w.acc, w.how)
    ELSE WReply(save_inodes(
                  [w.fs EXCEPT !.inodes[idx].size =
                                   IF offset + w.acc.tw > @ THEN offset + w.acc.tw
                                   ELSE @,
                               !.inodes[idx].mtime = now,
                               !.inodes[idx].ctime = now]),
                "OK", w.acc.tw, idx, w.acc, w.how)

\* nufs_write from the exit of its loop on: w is what the loop gave
write_end(w, idx, offset, now) ==
    IF w.how = "nospace"
    THEN IF w.acc.tw # 0 THEN WReply(w.fs, "OK", w.acc.tw, idx, w.acc, w.how)
         ELSE WReply(w.fs, "ENOSPC", 0, idx, w.acc, w.how)
    ELSE IF w.how = "eio" THEN WReply(w.fs, "EIO", 0, idx, w.acc, w.how)
    ELSE WReply(save_inodes(
                  [w.fs EXCEPT !.inodes[idx].size =
                                   IF offset + w.acc.tw > @ THEN offset + w.acc.tw
                                   ELSE @,
                               !.inodes[idx].mtime = now,
                               !.inodes[idx].ctime = now]),
                "OK", w.acc.tw, idx, w.acc, w.how)

\* nufs_write from the inode_lookup on: idx is what it gave
write_found(fs, idx, buf, size, offset, now, ub) ==
    IF idx < 0 THEN WReply(fs, "ENOENT", 0, idx, NoAcc, "none")
    ELSE IF ~HasBit(fs.inodes[idx].mode, S_IFREG)
    THEN WReply(fs, "EISDIR", 0, idx, NoAcc, "none")
    ELSE write_end(write_loop(fs, idx, buf, size, offset, ub, NoAcc),
                   idx, offset, now)

nufs_write(fs, path, buf, size, offset, now, ub) ==
    write_found(fs, inode_lookup(fs, path), buf, size, offset, now, ub)

RECURSIVE read_loop(_, _, _, _, _)
\* the while loop of nufs_read; gives the bytes copied to buf, or "eio"
read_loop(fs, idx, size, offset, got) ==
    IF Len(got) >= size THEN [how |-> "end", got |-> got]
    ELSE
    LET block_index  == (offset + Len(got)) \div BLOCK_SIZE
        block_offset == (offset + Len(got)) % BLOCK_SIZE
        to_read      == Min(BLOCK_SIZE - block_offset, size - Len(got))
    IN IF block_index >= fs.inodes[idx].block_count
       THEN [how |-> "end", got |-> got]
       ELSE
       LET block_num == fs.inodes[idx].blocks[block_index]
       IN IF ~ValidBlock(block_num) THEN [how |-> "eio", got |-> got]
          ELSE read_loop(fs, idx, size, offset,
                 got \o [i \in 1 .. to_read |->
                            fs.disk[block_num][block_offset + i - 1]])

RReply(fs, err, ret, data) == [fs |-> fs, err |-> err, ret |-> ret, data |-> data]

\* nufs_read that sets the mtime along with the atime
nufs_read_mtime(fs, path, size, offset, now) ==
    LET idx == inode_lookup(fs, path)
    IN IF idx < 0 THEN RReply(fs, "ENOENT", 0, << >>)
       ELSE IF ~HasBit(fs.inodes[idx].mode, S_IFREG)
       THEN RReply(fs, "EISDIR", 0, << >>)
       ELSE IF offset >= fs.inodes[idx].size THEN RReply(fs, "OK", 0, << >>)
       ELSE
       LET clamped == Min(size, fs.inodes[idx].size - offset)
           r == read_loop(fs, idx, clamped, offset, << >>)
       IN IF r.how = "eio" THEN RReply(fs, "EIO", 0, r.got)
          ELSE RReply(save_inodes([fs EXCEPT !.inodes[idx].atime = now,
                                             !.inodes[idx].mtime = now]),
                      "OK", Len(r.got), r.got)

nufs_read(fs, path, size, offset, now) ==
    LET idx == inode_lookup(fs, path)
    IN IF idx < 0 THEN RReply(fs, "ENOENT", 0, << >>)
       ELSE IF ~HasBit(fs.inodes[idx].mode, S_IFREG)
       THEN RReply(fs, "EISDIR", 0, << >>)
       ELSE IF offset >= fs.inodes[idx].size THEN RReply(fs, "OK", 0, << >>)
       ELSE
       LET clamped == Min(size, fs.inodes[idx].size - offset)
           r == read_loop(fs, idx, clamped, offset, << >>)
       IN IF r.how = "eio" THEN RReply(fs, "EIO", 0, r.got)
          ELSE RReply(save_inodes([fs EXCEPT !.inodes[idx].atime = now]),
                      "OK", Len(r.got), r.got)

nufs_access(fs, path) ==
    IF inode_lookup(fs, path) < 0 THEN Reply(fs, "ENOENT", 0)
    ELSE Reply(fs, "OK", 0)

\* ret is st_size
nufs_getattr(fs, path) ==
    IF inode_lookup(fs, path) < 0 THEN Reply(fs, "ENOENT", 0)
    ELSE Reply(fs, "OK", fs.inodes[inode_lookup(fs, path)].size)

\* st_size of nufs_getattr, -1 for -ENOENT
getattr_size(fs, path) ==
    LET idx == inode_lookup(fs, path)
    IN IF idx < 0 THEN -1 ELSE fs.inodes[idx].size

\* ------------------------------------------------------------------ the loops, one iteration at a time
\* a chunk one byte short of the end of the block
Chunk_short(block_offset, left) == Min((BLOCK_SIZE - 1) - block_offset, left)

\* to_write and to_read: the bytes from block_offset to the end of the
\* block, cut to the bytes that are left
Chunk(block_offset, left) == Min(BLOCK_SIZE - block_offset, left)

\* the body of the while loop of nufs_write from the inode_add_block check
\* on; how "loop": the body ran to its end and the loop test comes next
write_iter_copy(fs, added, idx, buf, size, offset, ub, acc) ==
    LET block_index  == (offset + acc.tw) \div BLOCK_SIZE
        block_offset == (offset + acc.tw) % BLOCK_SIZE
    IN IF added.ret < 0 THEN [fs |-> fs, how |-> "nospace", acc |-> acc]
       ELSE IF ~ValidBlock(BlockAt(added.fs, idx, block_index, ub))
       THEN [fs |-> added.fs, how |-> "eio", acc |-> acc]
       ELSE [fs |-> StoreBytes(added.fs, BlockAt(added.fs, idx, block_index, ub),
                               block_offset,
                               SubSeq(buf, acc.tw + 1,
                                      acc.tw + Chunk(block_offset, size - acc.tw))),
             how |-> "loop",
             acc |-> [acc EXCEPT !.tw = @ + Chunk(block_offset, size - acc.tw)]]

\* the loop test of nufs_write and one run of the body
write_iter(fs, idx, buf, size, offset, ub, acc) ==
    IF acc.tw >= size THEN [fs |-> fs, how |-> "end", acc |-> acc]
    ELSE write_iter_copy(fs,
                         IF (offset + acc.tw) \div BLOCK_SIZE >= fs.inodes[idx].block_count
                         THEN inode_add_block(fs, idx)
                         ELSE [fs |-> fs, ret |-> 0],
                         idx, buf, size, offset, ub, acc)

\* the loop test of nufs_read and one run of the body; size is the clamped
\* size and got the bytes copied to buf so far
read_iter(fs, idx, size, offset, got) ==
    IF Len(got) >= size THEN [how |-> "end", got |-> got]
    ELSE
    LET block_index  == (offset + Len(got)) \div BLOCK_SIZE
        block_offset == (offset + Len(got)) % BLOCK_SIZE
    IN IF block_index >= fs.inodes[idx].block_count
       THEN [how |-> "end", got |-> got]
       ELSE IF ~ValidBlock(fs.inodes[idx].blocks[block_index])
       THEN [how |-> "eio", got |-> got]
       ELSE [how |-> "loop",
             got |-> got \o [i \in 1 .. Chunk(block_offset, size - Len(got)) |->
                        fs.disk[fs.inodes[idx].blocks[block_index]][block_offset + i - 1]]]

\* nufs_read from the exit of its loop on: r is what the loop gave
read_end(fs, idx, r, now) ==
    IF r.how = "eio" THEN RReply(fs, "EIO", 0, r.got)
    ELSE RReply(save_inodes([fs EXCEPT !.inodes[idx].atime = now]),
                "OK", Len(r.got), r.got)

\* ------------------------------------------------------------------ mount
\* an image file that did not exist: ftruncate leaves it all zero
EmptyImage ==
    [disk |-> [b \in ByteBlocks |-> ZeroBlock],
     meta |-> [inode_count |-> 0, inodes |-> [i \in Slots |-> ZeroInode],
               scribbled |-> FALSE, hit |-> {}]]

\* blocks_init: st_size is the size of the image file before the mount
blocks_init(image, st_size) ==
    IF st_size = 0 THEN [image EXCEPT !.disk[0] = bitmap_put(@, 0, 1)]
    ELSE image

storage_init(image, st_size, now) ==
    LET img == blocks_init(image, st_size)
        ld  == load_inodes(img.meta)
        fs  == [inode_count |-> ld.inode_count, inodes |-> ld.inodes,
                disk |-> img.disk, meta |-> img.meta]
    IN IF inode_lookup(fs, <<"/">>) < 0
       THEN inode_create(fs, <<"/">>, S_IFDIR + Perm0755, now).fs
       ELSE fs

\* const int NUFS_SIZE = BLOCK_SIZE * BLOCK_COUNT
NUFS_SIZE == BLOCK_SIZE * BLOCK_COUNT

\* the image with the metadata bytes that stray stores overwrote all zero
ZeroedMeta(m) ==
    [inode_count |-> IF -1 \in m.hit THEN 0 ELSE m.inode_count,
     inodes      |-> [i \in Slots |-> IF i \in m.hit THEN ZeroInode ELSE m.inodes[i]],
     scribbled   |-> FALSE,
     hit         |-> {}]

\* the images the file may hold when it is mapped again: where caller bytes
\* went over metadata they were equal to the bytes they replaced, or zero
ImagesAtMount(d, m) ==
    {[disk |-> d, meta |-> [m EXCEPT !.scribbled = FALSE, !.hit = {}]]}
    \cup (IF m.hit # {} THEN {[disk |-> d, meta |-> ZeroedMeta(m)]} ELSE {})

\* ------------------------------------------------------------------ state
VARIABLES
    inode_count,  \* static int inode_count
    inodes,       \* static inode_t inodes[MAX_FILES]
    disk,         \* the bytes of block 0 and of the data blocks of the image
    meta,         \* the inode header and inode records of the image
    now,          \* what time(NULL) returns
    nops,         \* number of upcalls made
    last,         \* the last upcall: its arguments and what it returned
    hi,           \* per slot: highest offset + count over the writes that
                  \* returned no error since the inode was created
    snap,         \* the bitmap and inode table before the last successful
                  \* mknod (kept over the writes to its path) or before the
                  \* successful rename just made
    content       \* per slot and position: the byte the last write that
                  \* returned no error wrote there, -1 if there was none

vars == <<inode_count, inodes, disk, meta, now, nops, last, hi, snap, content>>

FS == [inode_count |-> inode_count, inodes |-> inodes, disk |-> disk, meta |-> meta]

Commit(fs) ==
    /\ inode_count' = fs.inode_count
    /\ inodes' = fs.inodes
    /\ disk' = fs.disk
    /\ meta' = fs.meta

NoLast ==
    [op |-> "mount", path |-> << >>, to |-> << >>, offset |-> 0, size |-> 0,
     buf |-> << >>, mode |-> 0, err |-> "OK", ret |-> 0, data |-> << >>,
     idx |-> -1, copied |-> {}, oob |-> FALSE, how |-> "none", names |-> << >>,
     bnum |-> -1, val |-> 0, iters |-> 0]

NoSnap ==
    [kind |-> "none", path |-> << >>, to |-> << >>, bitmap |-> ZeroBlock,
     inode_count |-> 0, inodes |-> [i \in Slots |-> ZeroInode]]

\* the snapshot taken when the upcall kind(path, to) has returned err
Snapshot(kind, path, to, err) ==
    IF err = "OK"
    THEN [kind |-> kind, path |-> path, to |-> to, bitmap |-> disk[0],
          inode_count |-> inode_count, inodes |-> inodes]
    ELSE NoSnap

\* no byte written yet
NoContent == [p \in 0 .. ((MAX_BLOCKS_PER_FILE + 2) * BLOCK_SIZE - 1) |-> -1]

\* content once the inode that err says was created is in slot n
Created(err, n) ==
    IF err = "OK" THEN [content EXCEPT ![n] = NoContent] ELSE content

\* ------------------------------------------------------------------ inputs
Paths == {<<"/">>, <<"/", "a">>, <<"/", "b">>}
MknodModes == {0, S_IFREG + Perm0644}
MkdirModes == {Perm0755}
\* modes without file-type bits: nothing, and the permission bits alone
BareModes == {0, Perm0644}
\* offsets: the start of the file, inside a block, on a block boundary, and
\* the first byte past the largest block map
Offsets == {0, 1, BLOCK_SIZE, MAX_BLOCKS_PER_FILE * BLOCK_SIZE}
\* lengths: nothing, part of a block, more than a block, several blocks
Sizes == {0, 1, BLOCK_SIZE + 1, MAX_BLOCKS_PER_FILE * BLOCK_SIZE}
MaxEnd == (MAX_BLOCKS_PER_FILE + 2) * BLOCK_SIZE
\* caller buffers: all zero, and 1, 2, 3, ...
Buffers(n) == {[i \in 1 .. n |-> 0], [i \in 1 .. n |-> i]}
\* the indices past the end of blocks[] that a write of [offset, offset + size) uses
PastEnd(offset, size) ==
    {k \in MAX_BLOCKS_PER_FILE .. (MaxEnd \div BLOCK_SIZE) :
        size > 0 /\ k * BLOCK_SIZE < offset + size /\ (k + 1) * BLOCK_SIZE > offset}
\* what a read past the end of blocks[] may give: no block, or any block
PastEndValues == -1 .. (BLOCK_COUNT - 1)
\* the choices for the reads past the end of blocks[] of one call of nufs_write
PastEndChoices(fs, path, offset, size) ==
    LET idx == inode_lookup(fs, path)
    IN IF idx >= 0 /\ HasBit(fs.inodes[idx].mode, S_IFREG)
       THEN [PastEnd(offset, size) -> PastEndValues]
       ELSE {[k \in PastEnd(offset, size) |-> -1]}

Init ==
    LET fs == storage_init(EmptyImage, 0, 0)
    IN /\ inode_count = fs.inode_count
       /\ inodes = fs.inodes
       /\ disk = fs.disk
       /\ meta = fs.meta
       /\ now = 0
       /\ nops = 0
       /\ last = NoLast
       /\ hi = [i \in Slots |-> 0]
       /\ snap = NoSnap
       /\ content = [i \in Slots |-> NoContent]

Tick ==
    /\ now < MaxTime
    /\ now' = now + 1
    /\ UNCHANGED <<inode_count, inodes, disk, meta, nops, last, hi, snap, content>>

\* One action per upcall: P is the set of paths the caller may pass, M the
\* modes, O and Z the offsets and lengths, and limit the number of upcalls
\* explored.
Mknod(P, M, limit) ==
    /\ nops < limit
    /\ \E path \in P, mode \in M :
          LET r == nufs_mknod(FS, path, mode, now)
          IN /\ Commit(r.fs)
             /\ last' = [NoLast EXCEPT !.op = "mknod", !.path = path,
                                       !.mode = mode, !.err = r.err,
                                       !.idx = inode_lookup(FS, path)]
             /\ snap' = Snapshot("mknod", path, << >>, r.err)
             /\ content' = Created(r.err, inode_count)
    /\ nops' = nops + 1
    /\ UNCHANGED <<now, hi>>

Mkdir(P, limit) ==
    /\ nops < limit
    /\ \E path \in P, mode \in MkdirModes :
          LET r == nufs_mkdir(FS, path, mode, now)
          IN /\ Commit(r.fs)
             /\ last' = [NoLast EXCEPT !.op = "mkdir", !.path = path,
                                       !.mode = mode, !.err = r.err,
                                       !.idx = inode_lookup(FS, path)]
             /\ content' = Created(r.err, inode_count)
    /\ snap' = NoSnap
    /\ nops' = nops + 1
    /\ UNCHANGED <<now, hi>>

Unlink(P, limit) ==
    /\ nops < limit
    /\ \E path \in P :
          LET r == nufs_unlink(FS, path)
              k == inode_lookup(FS, path)
          IN /\ Commit(r.fs)
             /\ last' = [NoLast EXCEPT !.op = "unlink", !.path = path,
                                       !.err = r.err, !.idx = k]
             /\ hi' = IF r.err # "OK" THEN hi
                      ELSE [i \in Slots |->
                              IF i = inode_count - 1 THEN 0
                              ELSE IF i >= k /\ i < inode_count - 1 THEN hi[i + 1]
                              ELSE hi[i]]
             /\ content' = IF r.err # "OK" THEN content
                           ELSE [i \in Slots |->
                                   IF i = inode_count - 1 THEN NoContent
                                   ELSE IF i >= k /\ i < inode_count - 1
                                   THEN content[i + 1]
                                   ELSE content[i]]
    /\ snap' = NoSnap
    /\ nops' = nops + 1
    /\ UNCHANGED now

Rename(P, limit) ==
    /\ nops < limit
    /\ \E from \in P, to \in P :
          LET r == nufs_rename(FS, from, to, now)
          IN /\ Commit(r.fs)
             /\ last' = [NoLast EXCEPT !.op = "rename", !.path = from, !.to = to,
                                       !.err = r.err,
                                       !.idx = inode_lookup(FS, from)]
             /\ snap' = Snapshot("rename", from, to, r.err)
    /\ nops' = nops + 1
    /\ UNCHANGED <<now, hi, content>>

\* the state after a call of nufs_write that gave r
Written(r, path, buf, size, offset) ==
    /\ Commit(r.fs)
    /\ last' = [NoLast EXCEPT !.op = "write", !.path = path,
                   !.offset = IF r.how # "none" THEN offset ELSE 0,
                   !.size = IF r.how # "none" THEN size ELSE 0,
                   !.buf = IF r.err = "OK" THEN buf ELSE << >>,
                   !.err = r.err, !.ret = r.ret, !.idx = r.idx, !.how = r.how,
                   !.copied = r.acc.copied, !.oob = r.acc.oob]
    /\ hi' = IF r.err = "OK" /\ offset + r.ret > hi[r.idx]
             THEN [hi EXCEPT ![r.idx] = offset + r.ret]
             ELSE hi
    /\ snap' = IF snap.kind = "mknod" /\ snap.path = path THEN snap ELSE NoSnap
    /\ content' = IF r.err = "OK"
                  THEN [content EXCEPT ![r.idx] =
                          [p \in DOMAIN @ |->
                              IF p >= offset /\ p < offset + r.ret
                              THEN buf[p - offset + 1] ELSE @[p]]]
                  ELSE content

Write(P, O, Z, limit) ==
    /\ nops < limit
    /\ \E path \in P, offset \in O, size \in Z :
          /\ offset + size <= MaxEnd
          /\ \E buf \in Buffers(size),
                ub \in PastEndChoices(FS, path, offset, size) :
                Written(nufs_write(FS, path, buf, size, offset, now, ub),
                        path, buf, size, offset)
    /\ nops' = nops + 1
    /\ UNCHANGED now

Read(P, O, Z, limit) ==
    /\ nops < limit
    /\ \E path \in P, offset \in O, size \in Z :
          LET r == nufs_read(FS, path, size, offset, now)
              ok == r.err = "OK"
          IN /\ Commit(r.fs)
             /\ last' = [NoLast EXCEPT !.op = "read", !.path = path,
                            !.offset = IF ok THEN offset ELSE 0,
                            !.size = IF ok THEN size ELSE 0,
                            !.err = r.err, !.ret = r.ret, !.data = r.data,
                            !.idx = inode_lookup(FS, path)]
    /\ snap' = NoSnap
    /\ nops' = nops + 1
    /\ UNCHANGED <<now, hi, content>>

Readdir(P, limit) ==
    /\ nops < limit
    /\ \E path \in P :
          last' = [NoLast EXCEPT !.op = "readdir", !.path = path,
                                 !.err = nufs_readdir(FS, path).err,
                                 !.names = nufs_readdir(FS, path).names,
                                 !.idx = inode_lookup(FS, path)]
    /\ snap' = NoSnap
    /\ nops' = nops + 1
    /\ UNCHANGED <<inode_count, inodes, disk, meta, now, hi, content>>

Access(P, limit) ==
    /\ nops < limit
    /\ \E path \in P :
          /\ Commit(nufs_access(FS, path).fs)
          /\ last' = [NoLast EXCEPT !.op = "access", !.path = path,
                                    !.err = nufs_access(FS, path).err,
                                    !.idx = inode_lookup(FS, path)]
    /\ snap' = NoSnap
    /\ nops' = nops + 1
    /\ UNCHANGED <<now, hi, content>>

Getattr(P, limit) ==
    /\ nops < limit
    /\ \E path \in P :
          /\ Commit(nufs_getattr(FS, path).fs)
          /\ last' = [NoLast EXCEPT !.op = "getattr", !.path = path,
                                    !.err = nufs_getattr(FS, path).err,
                                    !.ret = nufs_getattr(FS, path).ret,
                                    !.idx = inode_lookup(FS, path)]
    /\ snap' = NoSnap
    /\ nops' = nops + 1
    /\ UNCHANGED <<now, hi, content>>

Rmdir(P, limit) ==
    /\ nops < limit
    /\ \E path \in P :
          LET r == ops_rmdir(FS, path)
          IN /\ Commit(r.fs)
             /\ last' = [NoLast EXCEPT !.op = "rmdir", !.path = path,
                                       !.err = r.err,
                                       !.idx = inode_lookup(FS, path)]
    /\ snap' = NoSnap
    /\ nops' = nops + 1
    /\ UNCHANGED <<now, hi, content>>

\* unmount, then main again on the same image file of NUFS_SIZE bytes
Remount(limit) ==
    /\ nops < limit
    /\ \E img \in ImagesAtMount(disk, meta) :
          Commit(storage_init(img, NUFS_SIZE, now))
    /\ last' = [NoLast EXCEPT !.op = "remount"]
    /\ snap' = NoSnap
    /\ nops' = nops + 1
    /\ UNCHANGED <<now, hi, content>>

\* any sequence of upcalls on a freshly mounted empty image
Next ==
    \/ Tick
    \/ Remount(MaxOps)
    \/ Mknod(Paths, MknodModes, MaxOps)
    \/ Mkdir(Paths, MaxOps)
    \/ Unlink(Paths, MaxOps)
    \/ Rename(Paths, MaxOps)
    \/ Write(Paths, Offsets, Sizes, MaxOps)
    \/ Read(Paths, Offsets, Sizes, MaxOps)
    \/ Readdir(Paths, MaxOps)

Spec == Init /\ [][Next]_vars

\* longer sequences of upcalls on one file: create, write, read, remove
OneFile == {<<"/", "a">>}

NextData ==
    \/ Mknod(OneFile, MknodModes, MaxOpsData)
    \/ Write(OneFile, Offsets, Sizes, MaxOpsData)
    \/ Read(OneFile, Offsets, Sizes, MaxOpsData)
    \/ Unlink(OneFile, MaxOpsData)

SpecData == Init /\ [][NextData]_vars

\* the upcalls that create, remove and rename inodes, with one-byte writes
\* and reads at offset 0 so that the inodes moved and removed own blocks
NextTable ==
    \/ Tick
    \/ Remount(MaxOpsTable)
    \/ Mknod(Paths, MknodModes, MaxOpsTable)
    \/ Mkdir(Paths, MaxOpsTable)
    \/ Unlink(Paths, MaxOpsTable)
    \/ Rename(Paths, MaxOpsTable)
    \/ Write(Paths, {0}, {1}, MaxOpsTable)
    \/ Read(Paths, {0}, {1}, MaxOpsTable)

SpecTable == Init /\ [][NextTable]_vars

\* one file filled up to its largest block map and written past it
FillOffsets == {0, 1, MAX_BLOCKS_PER_FILE * BLOCK_SIZE}
FillSizes == {1, MAX_BLOCKS_PER_FILE * BLOCK_SIZE}

NextFill ==
    \/ Mknod(OneFile, MknodModes, MaxOpsFill)
    \/ Write(OneFile, FillOffsets, FillSizes, MaxOpsFill)
    \/ Read(OneFile, FillOffsets, FillSizes, MaxOpsFill)

SpecFill == Init /\ [][NextFill]_vars

\* a path of n bytes: "/xx...x"
LongName(n) == [i \in 1 .. n |-> IF i = 1 THEN "/" ELSE "x"]
\* the root, the longest path an inode can hold, and a path one byte longer
LongPaths == {<<"/">>, LongName(PATH_SIZE - 1), LongName(PATH_SIZE)}

\* the upcalls that take a path, called with paths at the length limit
NextLong ==
    \/ Mknod(LongPaths, MknodModes, MaxOpsTable)
    \/ Mkdir(LongPaths, MaxOpsTable)
    \/ Rename(LongPaths, MaxOpsTable)
    \/ Unlink(LongPaths, MaxOpsTable)
    \/ Write(LongPaths, {0}, {1}, MaxOpsTable)
    \/ Read(LongPaths, {0}, {1}, MaxOpsTable)

SpecLong == Init /\ [][NextLong]_vars

\* a directory "/a" with a child, a grandchild and a sibling of the same
\* prefix, and the directory named with a trailing slash
TreePaths ==
    {<<"/">>, <<"/", "a">>, <<"/", "a", "/">>, <<"/", "a", "b">>,
     <<"/", "a", "/", "b">>, <<"/", "a", "/", "b", "/", "c">>}

\* the upcalls that build and list a tree of directories
NextDir ==
    \/ Mknod(TreePaths, MknodModes, MaxOpsDir)
    \/ Mkdir(TreePaths, MaxOpsDir)
    \/ Readdir(TreePaths, MaxOpsDir)
    \/ Rmdir(TreePaths, MaxOpsDir)

SpecDir == Init /\ [][NextDir]_vars

\* files created with a mode that has no file-type bits, written and read
NextMode ==
    \/ Mknod(Paths, BareModes, MaxOpsTable)
    \/ Write(Paths, {0}, {1}, MaxOpsTable)
    \/ Read(Paths, {0}, {1}, MaxOpsTable)

SpecMode == Init /\ [][NextMode]_vars

\* The block layer on its own: alloc_block and free_block called on an
\* image mapped with any bitmap and any block contents.
RECURSIVE SetBits(_, _)
\* bitmap_put(bm, i, 1) for every i in S
SetBits(bm, S) ==
    IF S = {} THEN bm
    ELSE LET i == CHOOSE i \in S : TRUE
         IN SetBits(bitmap_put(bm, i, 1), S \ {i})

DataBlocks == FIRST_DATA_BLOCK .. (BLOCK_COUNT - 1)
\* a block that holds bytes other than zero
DirtyBlock == [o \in ByteOff |-> 1]

\* the bitmap block and data blocks of the images: bit 0 set or not, the
\* bits of the metadata blocks all clear or all set, any bits of the data
\* blocks, any block zero or not
BlockImages ==
    {[b \in ByteBlocks |->
         IF b = 0 THEN SetBits(ZeroBlock, S \cup Z)
         ELSE IF b \in D THEN DirtyBlock ELSE ZeroBlock] :
     S \in SUBSET DataBlocks, Z \in {{}, {0}, {0} \cup MetaBlocks},
     D \in SUBSET DataBlocks}

InitBlocks ==
    /\ disk \in BlockImages
    /\ inode_count = 0
    /\ inodes = [i \in Slots |-> ZeroInode]
    /\ meta = EmptyImage.meta
    /\ now = 0
    /\ nops = 0
    /\ last = NoLast
    /\ hi = [i \in Slots |-> 0]
    /\ snap = NoSnap
    /\ content = [i \in Slots |-> NoContent]

Alloc(limit) ==
    /\ nops < limit
    /\ Commit(alloc_block(FS).fs)
    /\ last' = [NoLast EXCEPT !.op = "alloc",
                              !.ret = alloc_block(FS).ret,
                              !.err = IF alloc_block(FS).ret < 0 THEN "ENOSPC"
                                      ELSE "OK"]
    /\ nops' = nops + 1
    /\ UNCHANGED <<now, hi, snap, content>>

Free(B, limit) ==
    /\ nops < limit
    /\ \E bnum \in B :
          /\ Commit(free_block(FS, bnum))
          /\ last' = [NoLast EXCEPT !.op = "free", !.bnum = bnum]
    /\ nops' = nops + 1
    /\ UNCHANGED <<now, hi, snap, content>>

\* the block numbers a caller may pass: none, every block, one past the end
BlockNumbers == -1 .. BLOCK_COUNT

NextBlocks ==
    \/ Alloc(MaxOpsBlocks)
    \/ Free(BlockNumbers, MaxOpsBlocks)

SpecBlocks == InitBlocks /\ [][NextBlocks]_vars

\* the root directory and one file
RootAndFile == {<<"/">>, <<"/", "a">>}

\* nufs_write and nufs_read with their while loops run one iteration per
\* step.  While a call is in its loop last.how is "loop", last.ret is
\* total_written or total_read, last.iters the runs of the loop body so far
\* and last.size the size the loop test compares with.
InLoop == last.how = "loop"
WriteInLoop == InLoop /\ last.op = "write"

\* nufs_write up to its loop
WriteBegin(P, O, Z, limit) ==
    /\ ~InLoop
    /\ nops < limit
    /\ \E path \in P, offset \in O, size \in Z :
        \E buf \in Buffers(size) :
          /\ offset + size <= MaxEnd
          /\ last' = IF inode_lookup(FS, path) < 0
                     THEN [NoLast EXCEPT !.op = "write", !.path = path,
                                         !.err = "ENOENT", !.how = "none"]
                     ELSE IF ~HasBit(inodes[inode_lookup(FS, path)].mode, S_IFREG)
                     THEN [NoLast EXCEPT !.op = "write", !.path = path,
                                         !.err = "EISDIR", !.how = "none",
                                         !.idx = inode_lookup(FS, path)]
                     ELSE [NoLast EXCEPT !.op = "write", !.path = path,
                                         !.idx = inode_lookup(FS, path),
                                         !.buf = buf, !.size = size,
                                         !.offset = offset, !.how = "loop"]
    /\ nops' = nops + 1
    /\ UNCHANGED <<inode_count, inodes, disk, meta, now, hi, snap, content>>

\* w is what one iteration gave: the next loop test, or the rest of the call
WriteStepped(w) ==
    IF w.how = "loop"
    THEN /\ Commit(w.fs)
         /\ last' = [last EXCEPT !.ret = w.acc.tw, !.iters = @ + 1]
    ELSE /\ Commit(write_end(w, last.idx, last.offset, now).fs)
         /\ last' = [last EXCEPT
                        !.how = w.how,
                        !.iters = IF w.how = "end" THEN @ ELSE @ + 1,
                        !.err = write_end(w, last.idx, last.offset, now).err,
                        !.ret = write_end(w, last.idx, last.offset, now).ret]

WriteStep ==
    /\ WriteInLoop
    /\ \E ub \in [PastEnd(last.offset, last.size) -> PastEndValues] :
          WriteStepped(write_iter(FS, last.idx, last.buf, last.size, last.offset,
                                  ub, [NoAcc EXCEPT !.tw = last.ret]))
    /\ UNCHANGED <<now, nops, hi, snap, content>>

\* nufs_read up to its loop
ReadBegin(P, O, Z, limit) ==
    /\ ~InLoop
    /\ nops < limit
    /\ \E path \in P, offset \in O, size \in Z :
          last' = IF inode_lookup(FS, path) < 0
                  THEN [NoLast EXCEPT !.op = "read", !.path = path,
                                      !.err = "ENOENT", !.how = "none"]
                  ELSE IF ~HasBit(inodes[inode_lookup(FS, path)].mode, S_IFREG)
                  THEN [NoLast EXCEPT !.op = "read", !.path = path,
                                      !.err = "EISDIR", !.how = "none",
                                      !.idx = inode_lookup(FS, path)]
                  ELSE IF offset >= inodes[inode_lookup(FS, path)].size
                  THEN [NoLast EXCEPT !.op = "read", !.path = path,
                                      !.err = "OK", !.how = "none",
                                      !.idx = inode_lookup(FS, path)]
                  ELSE [NoLast EXCEPT !.op = "read", !.path = path,
                                      !.idx = inode_lookup(FS, path),
                                      !.size = Min(size, inodes[inode_lookup(FS, path)].size - offset),
                                      !.offset = offset, !.how = "loop"]
    /\ nops' = nops + 1
    /\ UNCHANGED <<inode_count, inodes, disk, meta, now, hi, snap, content>>

\* r is what one iteration gave
ReadStepped(r) ==
    IF r.how = "loop"
    THEN /\ last' = [last EXCEPT !.data = r.got, !.ret = Len(r.got), !.iters = @ + 1]
         /\ UNCHANGED <<inode_count, inodes, disk, meta>>
    ELSE /\ Commit(read_end(FS, last.idx, r, now).fs)
         /\ last' = [last EXCEPT
                        !.how = r.how,
                        !.iters = IF Len(last.data) >= last.size THEN @ ELSE @ + 1,
                        !.err = read_end(FS, last.idx, r, now).err,
                        !.ret = read_end(FS, last.idx, r, now).ret,
                        !.data = r.got]

ReadStep ==
    /\ InLoop /\ last.op = "read"
    /\ ReadStepped(read_iter(FS, last.idx, last.size, last.offset, last.data))
    /\ UNCHANGED <<now, nops, hi, snap, content>>

\* offsets at the start of a block, inside one and past the block map;
\* sizes of nothing, one byte, a whole block, a block and a byte, and a byte
\* more than the block map holds
LoopOffsets == {0, 1, BLOCK_SIZE, MAX_BLOCKS_PER_FILE * BLOCK_SIZE}
LoopSizes == {0, 1, BLOCK_SIZE, BLOCK_SIZE + 1, MAX_BLOCKS_PER_FILE * BLOCK_SIZE + 1}

\* the file system with one regular file of n bytes: a new image mounted,
\* the file made and its first n bytes written
OneFileOf(n) ==
    nufs_write(nufs_mknod(storage_init(EmptyImage, 0, 0), <<"/", "a">>,
                          S_IFREG + Perm0644, 0).fs,
               <<"/", "a">>, [i \in 1 .. n |-> i], n, 0, 0,
               [k \in PastEnd(0, n) |-> -1]).fs

\* one file of a byte or of a block and a byte
InitLoop ==
    /\ \E n \in {1, BLOCK_SIZE + 1} :
          /\ inode_count = OneFileOf(n).inode_count
          /\ inodes = OneFileOf(n).inodes
          /\ disk = OneFileOf(n).disk
          /\ meta = OneFileOf(n).meta
    /\ now = 0
    /\ nops = 0
    /\ last = NoLast
    /\ hi = [i \in Slots |-> 0]
    /\ snap = NoSnap
    /\ content = [i \in Slots |-> NoContent]

NextLoop ==
    \/ WriteBegin(RootAndFile, LoopOffsets, LoopSizes, MaxOpsLoop)
    \/ WriteStep
    \/ ReadBegin(RootAndFile, LoopOffsets, LoopSizes, MaxOpsLoop)
    \/ ReadStep

SpecLoop == InitLoop /\ [][NextLoop]_vars

\* A call that is in its loop goes on running: the upcall runs on the
\* thread that entered it until it returns.  The fairness of WriteStep is
\* WF_vars(WriteStep) with ENABLED <<WriteStep>>_vars written out: WriteStep
\* can step, and changes last, exactly when a write is in its loop.
SpecLoopLive ==
    /\ SpecLoop
    /\ WF_vars(ReadStep)
    /\ ([]<>(~WriteInLoop) \/ []<><<WriteStep>>_vars)

\* The bitmap on its own: bitmap_put and then bitmap_get of the same bit, on
\* the bitmap block of an image.  bnum is the bit, val the value put and
\* ret what bitmap_get then returns.
BitIndices == -1 .. (8 * BLOCK_SIZE - 1)
BitValues == {0, 1, 2}

InitBits ==
    /\ InitBlocks
    /\ \A b \in DataBlocks : disk[b] = ZeroBlock

BitPut(I, V, limit) ==
    /\ nops < limit
    /\ \E i \in I, v \in V :
          /\ disk' = [disk EXCEPT ![0] = bitmap_put(@, i, v)]
          /\ last' = [NoLast EXCEPT !.op = "put", !.bnum = i, !.val = v,
                                    !.ret = bitmap_get(bitmap_put(disk[0], i, v), i)]
    /\ nops' = nops + 1
    /\ UNCHANGED <<inode_count, inodes, meta, now, hi, snap, content>>

NextBits == BitPut(BitIndices, BitValues, MaxOpsBits)

SpecBits == InitBits /\ [][NextBits]_vars

\* The mount of an image file of any prior size.  st_size 0 is a file that
\* was absent or empty, BLOCK_SIZE a file that held its first block only,
\* NUFS_SIZE a file of the full size; ftruncate leaves the bytes past the
\* old end zero.
MountSizes == {0, BLOCK_SIZE, NUFS_SIZE}

ImagesOfSize(st_size) ==
    IF st_size = 0 THEN {EmptyImage}
    ELSE {[disk |-> d, meta |-> EmptyImage.meta] :
             d \in {d \in BlockImages :
                       st_size < NUFS_SIZE
                       => \A b \in DataBlocks : d[b] = ZeroBlock}}

InitMount ==
    /\ \E st_size \in MountSizes : \E image \in ImagesOfSize(st_size) :
          /\ inode_count = storage_init(image, st_size, 0).inode_count
          /\ inodes = storage_init(image, st_size, 0).inodes
          /\ disk = storage_init(image, st_size, 0).disk
          /\ meta = storage_init(image, st_size, 0).meta
          /\ last = [NoLast EXCEPT !.size = st_size]
    /\ now = 0
    /\ nops = 0
    /\ hi = [i \in Slots |-> 0]
    /\ snap = NoSnap
    /\ content = [i \in Slots |-> NoContent]

\* the upcalls that allocate and free blocks, on one file
NextMount ==
    \/ Mknod(OneFile, MknodModes, MaxOpsBlocks)
    \/ Write(OneFile, {0}, {1}, MaxOpsBlocks)
    \/ Unlink(OneFile, MaxOpsBlocks)

SpecMount == InitMount /\ [][NextMount]_vars

\* one file written and read, with the upcalls that only look
NextLook ==
    \/ Tick
    \/ Mknod(OneFile, MknodModes, MaxOpsFill)
    \/ Write(OneFile, {0}, {1, BLOCK_SIZE + 1}, MaxOpsFill)
    \/ Read(RootAndFile, {0, 1}, {1, BLOCK_SIZE + 1}, MaxOpsFill)
    \/ Access(RootAndFile, MaxOpsFill)
    \/ Getattr(RootAndFile, MaxOpsFill)
    \/ Readdir(RootAndFile, MaxOpsFill)

SpecLook == Init /\ [][NextLook]_vars

\* ------------------------------------------------------------------ claims
Live == {i \in Slots : i < inode_count}
\* the active block map of slot i, as the set of its (index, block) pairs
ActiveBlocks(i) == {inodes[i].blocks[j] : j \in {j \in BlockIdx : j < inodes[i].block_count}}
Mutating == {"mknod", "mkdir", "unlink", "rename", "write", "read"}

\* C1: every block in the active block map of every inode has its bitmap bit
\* set and is a data block (>= FIRST_DATA_BLOCK).
C1_ActiveBlocksAllocated ==
    \A i \in Live : \A j \in BlockIdx :
        j < inodes[i].block_count =>
            /\ inodes[i].blocks[j] >= FIRST_DATA_BLOCK
            /\ bitmap_get(disk[0], inodes[i].blocks[j]) = 1

\* C2: no block number is in the active block maps of two inodes, or twice
\* in the map of one inode.
C2_NoSharedBlock ==
    \A i1 \in Live, i2 \in Live : \A j1 \in BlockIdx, j2 \in BlockIdx :
        (/\ j1 < inodes[i1].block_count
         /\ j2 < inodes[i2].block_count
         /\ <<i1, j1>> # <<i2, j2>>)
        => inodes[i1].blocks[j1] # inodes[i2].blocks[j2]

\* C3: a write of n bytes at offset 0 that returned n, followed at once by a
\* read of n bytes at offset 0 of the same path, reads n bytes equal to the
\* bytes written.
C3_WriteThenRead ==
    [][(/\ last.op = "write" /\ last.err = "OK"
        /\ last.offset = 0 /\ last.ret = last.size
        /\ nops' = nops + 1
        /\ last'.op = "read" /\ last'.path = last.path
        /\ last'.offset = 0 /\ last'.size = last.size)
       => (last'.err = "OK" /\ last'.ret = last.size /\ last'.data = last.buf)]_vars

\* C4: after a write that returned n > 0 bytes at offset o, the file's
\* block_count is at least ceil((o + n) / BLOCK_SIZE) and every byte was
\* copied into a block of its active block map.
C4_WriteFillsGap ==
    (last.op = "write" /\ last.err = "OK" /\ last.ret > 0) =>
        /\ inodes[last.idx].block_count >= CeilDiv(last.offset + last.ret, BLOCK_SIZE)
        /\ last.copied \subseteq ActiveBlocks(last.idx)

\* C5: nufs_write copies caller bytes only into blocks >= FIRST_DATA_BLOCK,
\* never into the bitmap block or the inode blocks.
C5_NoMetadataOverwrite ==
    last.op = "write" => \A b \in last.copied : b >= FIRST_DATA_BLOCK

\* C6: getattr(p).size is the highest offset + returned count over the
\* writes to the file that returned no error (short counts included), 0 if
\* there was none.
C6_SizeIsHighestEnd ==
    \A p \in Paths :
        inode_lookup(FS, p) >= 0 => getattr_size(FS, p) = hi[inode_lookup(FS, p)]

\* C7: exactly one inode has path "/" and it is a directory.
C7_OneRoot ==
    /\ Cardinality({i \in Live : inodes[i].path = <<"/">>}) = 1
    /\ \A i \in Live : inodes[i].path = <<"/">> => HasBit(inodes[i].mode, S_IFDIR)

\* C8: mknod of a path that already has an inode returns -EEXIST and leaves
\* inode_count, the inode table and the bitmap unchanged.
C8_MknodExisting ==
    [][(nops' = nops + 1 /\ last'.op = "mknod" /\ last'.idx >= 0)
       => (/\ last'.err = "EEXIST"
           /\ inode_count' = inode_count
           /\ inodes' = inodes
           /\ disk'[0] = disk[0])]_vars

C10_ImageMatchesMemory ==
    (last.op \in Mutating /\ last.err = "OK") =>
        /\ ~meta.scribbled
        /\ load_inodes(meta) = [inode_count |-> inode_count, inodes |-> inodes]

\* the fields of an inode other than its timestamps
InodeCore(n) ==
    [path |-> n.path, mode |-> n.mode, size |-> n.size,
     block_count |-> n.block_count, blocks |-> n.blocks]

\* C11: storage_init on the image left by any sequence of upcalls leaves the
\* bitmap and all blocks as they were, gives the same inode_count and the
\* same inodes (path, mode, size, block map), among them one of path "/":
\* no inode is added.
C11_RemountPreserves ==
    [][(nops' = nops + 1 /\ last'.op = "remount")
       => (/\ disk' = disk
           /\ inode_count' = inode_count
           /\ \A i \in Slots : InodeCore(inodes'[i]) = InodeCore(inodes[i])
           /\ \E i \in Slots : i < inode_count' /\ inodes'[i].path = <<"/">>)]_vars

\* C12: a mknod called when inode_count = MAX_FILES returns -ENOSPC and
\* leaves the inode table and the image unchanged, and inode_count never
\* exceeds MAX_FILES.
C12_MknodFull ==
    [][/\ (nops' = nops + 1 /\ last'.op = "mknod" /\ inode_count = MAX_FILES)
          => (/\ last'.err = "ENOSPC"
              /\ inode_count' = inode_count
              /\ inodes' = inodes
              /\ meta' = meta
              /\ disk' = disk)
       /\ inode_count' <= MAX_FILES]_vars

\* C12 witness: a mknod on the full table was refused
C12_Witness ==
    last.op = "mknod" /\ last.err = "ENOSPC" /\ inode_count = MAX_FILES

\* C13: a write whose inode_add_block failed returns -ENOSPC and leaves the
\* size alone if it had copied nothing, and otherwise a positive short
\* count that ends on a block boundary; -ENOSPC has no other cause; and a
\* write of n > 0 bytes at offset MAX_BLOCKS_PER_FILE * BLOCK_SIZE to a file
\* of MAX_BLOCKS_PER_FILE blocks returns -ENOSPC and leaves its inode alone.
C13_WriteNoSpace ==
    [][(nops' = nops + 1 /\ last'.op = "write") =>
          /\ last'.how = "nospace" =>
                IF last'.copied = {}
                THEN /\ last'.err = "ENOSPC"
                     /\ inodes'[last'.idx].size = inodes[last'.idx].size
                ELSE /\ last'.err = "OK"
                     /\ last'.ret > 0 /\ last'.ret < last'.size
                     /\ (last'.offset + last'.ret) % BLOCK_SIZE = 0
          /\ last'.err = "ENOSPC" => last'.how = "nospace"
          /\ (/\ last'.how # "none"
              /\ inodes[last'.idx].block_count = MAX_BLOCKS_PER_FILE
              /\ last'.offset = MAX_BLOCKS_PER_FILE * BLOCK_SIZE
              /\ last'.size > 0)
             => (last'.err = "ENOSPC" /\ inodes'[last'.idx] = inodes[last'.idx])]_vars

\* C13 witness: a full file of MAX_BLOCKS_PER_FILE * BLOCK_SIZE bytes was
\* written at its end and the write was refused
C13_Witness ==
    /\ last.op = "write" /\ last.err = "ENOSPC"
    /\ last.offset = MAX_BLOCKS_PER_FILE * BLOCK_SIZE
    /\ inodes[last.idx].block_count = MAX_BLOCKS_PER_FILE
    /\ inodes[last.idx].size = MAX_BLOCKS_PER_FILE * BLOCK_SIZE

\* C14: every inode has block_count <= MAX_BLOCKS_PER_FILE and
\* size <= MAX_BLOCKS_PER_FILE * BLOCK_SIZE, and no write has read blocks[]
\* at an index >= MAX_BLOCKS_PER_FILE.
C14_BlockMapBounds ==
    /\ \A i \in Live :
          /\ inodes[i].block_count <= MAX_BLOCKS_PER_FILE
          /\ inodes[i].size <= MAX_BLOCKS_PER_FILE * BLOCK_SIZE
    /\ last.op = "write" => ~last.oob

\* the slots whose inode has path p
Named(p) == {i \in Live : inodes[i].path = p}

\* C15: unlink returns -ENOENT when no inode has the path and -EISDIR when
\* the inodes of that path are directories, and in both cases leaves the
\* inode table, the bitmap and every block unchanged.
C15_UnlinkRefused ==
    [][(nops' = nops + 1 /\ last'.op = "unlink") =>
          /\ Named(last'.path) = {} =>
                (last'.err = "ENOENT" /\ UNCHANGED <<inode_count, inodes, disk, meta>>)
          /\ (/\ Named(last'.path) # {}
              /\ \A i \in Named(last'.path) : HasBit(inodes[i].mode, S_IFDIR))
             => (last'.err = "EISDIR" /\ UNCHANGED <<inode_count, inodes, disk, meta>>)]_vars

\* C15 witness: unlink of a directory other than the root was refused
C15_Witness ==
    /\ last.op = "unlink" /\ last.err = "EISDIR"
    /\ last.path # <<"/">>
    /\ Named(last.path) # {}

\* C16: a successful unlink of the file at slot k clears the bitmap bit and
\* zero-fills every block of its active block map, changes no other bitmap
\* bit, decrements inode_count, leaves the slots below k alone, moves the
\* slots above k down by one and zeroes the vacated last slot.
C16_UnlinkEffect ==
    [][(nops' = nops + 1 /\ last'.op = "unlink" /\ last'.err = "OK") =>
          LET k == last'.idx
          IN /\ \A b \in ActiveBlocks(k) :
                   /\ bitmap_get(disk'[0], b) = 0
                   /\ b \in ByteBlocks => disk'[b] = ZeroBlock
             /\ \A b \in (0 .. (BLOCK_COUNT - 1)) \ ActiveBlocks(k) :
                   bitmap_get(disk'[0], b) = bitmap_get(disk[0], b)
             /\ inode_count' = inode_count - 1
             /\ \A i \in Slots :
                   inodes'[i] = IF i < k THEN inodes[i]
                                ELSE IF i < inode_count - 1 THEN inodes[i + 1]
                                ELSE ZeroInode]_vars

\* C17: a successful unlink(p) after a successful mknod(p), with only writes
\* to p in between, leaves the bitmap, inode_count and every slot of the
\* inode table as they were before the mknod.
C17_CreateUnlinkRestores ==
    [][(/\ nops' = nops + 1 /\ last'.op = "unlink" /\ last'.err = "OK"
        /\ snap.kind = "mknod" /\ snap.path = last'.path)
       => (/\ disk'[0] = snap.bitmap
           /\ inode_count' = snap.inode_count
           /\ inodes' = snap.inodes)]_vars

\* C18: rename(b, a) right after a successful rename(a, b) succeeds and
\* leaves inode_count and every inode as they were before the first rename,
\* apart from the mtime and ctime of the renamed inode.
C18_RenameBack ==
    [][(/\ nops' = nops + 1 /\ last'.op = "rename"
        /\ snap.kind = "rename"
        /\ last'.path = snap.to /\ last'.to = snap.path)
       => (/\ last'.err = "OK"
           /\ inode_count' = snap.inode_count
           /\ \A i \in Slots :
                 /\ InodeCore(inodes'[i]) = InodeCore(snap.inodes[i])
                 /\ inodes'[i].atime = snap.inodes[i].atime
                 /\ i # last.idx => inodes'[i] = snap.inodes[i])]_vars

\* C19: rename(from, to) returns -ENOENT if no inode has path from, else
\* -EEXIST if an inode has path to, else -ENAMETOOLONG if to does not fit
\* in the path field, and then changes no inode; otherwise it succeeds and
\* changes only the path, mtime and ctime of the source inode, and no block.
C19_RenameResult ==
    [][(nops' = nops + 1 /\ last'.op = "rename") =>
          IF Named(last'.path) = {}
          THEN last'.err = "ENOENT" /\ UNCHANGED <<inode_count, inodes, disk>>
          ELSE IF Named(last'.to) # {}
          THEN last'.err = "EEXIST" /\ UNCHANGED <<inode_count, inodes, disk>>
          ELSE IF Len(last'.to) >= PATH_SIZE
          THEN last'.err = "ENAMETOOLONG" /\ UNCHANGED <<inode_count, inodes, disk>>
          ELSE /\ last'.err = "OK"
               /\ UNCHANGED <<inode_count, disk>>
               /\ \E k \in Named(last'.path) :
                     /\ inodes'[k].path = last'.to
                     /\ inodes' = [inodes EXCEPT ![k].path = inodes'[k].path,
                                                 ![k].mtime = inodes'[k].mtime,
                                                 ![k].ctime = inodes'[k].ctime]]_vars

\* C20: readdir of a path that does not name a directory inode (no inode
\* has the path, or the inode is not a directory) returns -ENOENT.
C20_ReaddirNotDir ==
    (/\ last.op = "readdir"
     /\ \A i \in Named(last.path) : ~HasBit(inodes[i].mode, S_IFDIR))
    => last.err = "ENOENT"

\* is ip the path of a direct child of the directory dir: dir's path, a
\* single "/" (none for the root), then a non-empty name without "/"
IsChild(ip, dir) ==
    LET pre == IF dir = <<"/">> THEN dir ELSE Append(dir, "/")
    IN /\ Len(ip) > Len(pre)
       /\ SubSeq(ip, 1, Len(pre)) = pre
       /\ \A j \in (Len(pre) + 1) .. Len(ip) : ip[j] # "/"

Basename(ip, dir) ==
    SubSeq(ip, (IF dir = <<"/">> THEN 1 ELSE Len(dir) + 1) + 1, Len(ip))

\* C21: readdir of the path of a directory inode emits "." and ".." first
\* and then one name per inode that is a direct child of the directory, its
\* basename, and nothing else.
C21_ReaddirChildren ==
    (/\ last.op = "readdir"
     /\ \E i \in Named(last.path) : HasBit(inodes[i].mode, S_IFDIR))
    => LET kids == {i \in Live : IsChild(inodes[i].path, last.path)}
           n    == Len(last.names)
       IN /\ n = 2 + Cardinality(kids)
          /\ last.names[1] = <<".">> /\ last.names[2] = <<".", ".">>
          /\ {last.names[j] : j \in 3 .. n}
                = {Basename(inodes[i].path, last.path) : i \in kids}

\* C22: rmdir returns -ENOENT if no directory inode has the path, returns
\* -ENOTEMPTY and changes nothing if an inode is a direct child of the
\* directory, and otherwise removes the directory inode.
C22_Rmdir ==
    [][(nops' = nops + 1 /\ last'.op = "rmdir") =>
          LET dirs == {i \in Named(last'.path) : HasBit(inodes[i].mode, S_IFDIR)}
          IN IF dirs = {}
             THEN last'.err = "ENOENT"
             ELSE IF \E i \in Live : IsChild(inodes[i].path, last'.path)
             THEN /\ last'.err = "ENOTEMPTY"
                  /\ UNCHANGED <<inode_count, inodes, disk, meta>>
             ELSE /\ last'.err = "OK"
                  /\ inode_count' = inode_count - 1
                  /\ \A i \in Slots :
                        i < inode_count' => inodes'[i].path # last'.path]_vars

\* C23: mkdir of a path that an inode has (as passed, or with its trailing
\* slashes trimmed) returns -EEXIST and changes nothing; otherwise (the
\* table not being full) it appends one inode of that path whose mode is
\* the mode passed with the directory bit set, with size 0 and block_count
\* 0; and every directory inode has size 0 and block_count 0.
C23_Mkdir ==
    [][/\ (nops' = nops + 1 /\ last'.op = "mkdir") =>
             IF Named(last'.path) \cup Named(TrimSlashes(last'.path)) # {}
             THEN /\ last'.err = "EEXIST"
                  /\ UNCHANGED <<inode_count, inodes, disk, meta>>
             ELSE inode_count < MAX_FILES =>
                  /\ last'.err = "OK"
                  /\ inode_count' = inode_count + 1
                  /\ \A i \in Slots : i # inode_count => inodes'[i] = inodes[i]
                  /\ inodes'[inode_count].path \in {last'.path, TrimSlashes(last'.path)}
                  /\ inodes'[inode_count].mode = OrBit(last'.mode, S_IFDIR)
                  /\ inodes'[inode_count].size = 0
                  /\ inodes'[inode_count].block_count = 0
       /\ \A i \in Slots :
             (i < inode_count' /\ HasBit(inodes'[i].mode, S_IFDIR))
             => (inodes'[i].size = 0 /\ inodes'[i].block_count = 0)]_vars

\* C24: a mkdir of a path that no inode has, called when inode_count =
\* MAX_FILES, returns -ENOSPC and leaves the inode table unchanged.
C24_MkdirFull ==
    [][(/\ nops' = nops + 1 /\ last'.op = "mkdir"
        /\ inode_count = MAX_FILES
        /\ Named(last'.path) \cup Named(TrimSlashes(last'.path)) = {})
       => (/\ last'.err = "ENOSPC"
           /\ UNCHANGED <<inode_count, inodes>>)]_vars

\* C25: a mknod or mkdir with a path longer than PATH_SIZE - 1 bytes returns
\* -ENAMETOOLONG and stores no inode.
C25_LongPathRejected ==
    [][(/\ nops' = nops + 1 /\ last'.op \in {"mknod", "mkdir"}
        /\ Len(last'.path) > PATH_SIZE - 1)
       => (/\ last'.err = "ENAMETOOLONG"
           /\ UNCHANGED <<inode_count, inodes>>)]_vars

\* C26: every stored inode path is canonical: it starts with "/" and does
\* not end with "/" unless it is "/".
C26_CanonicalPaths ==
    \A i \in Live :
        /\ Len(inodes[i].path) >= 1
        /\ inodes[i].path[1] = "/"
        /\ Len(inodes[i].path) > 1 => inodes[i].path[Len(inodes[i].path)] # "/"

\* mode & S_IFMT == 0
NoTypeBits(m) == (m \div 4096) % 16 = 0

\* C27: a successful mknod with a mode without file-type bits appends an
\* inode whose mode is S_IFREG | 0644, and a write or read of that path
\* right after it does not return -EISDIR.
C27_MknodBareMode ==
    [][/\ (/\ nops' = nops + 1 /\ last'.op = "mknod" /\ last'.err = "OK"
           /\ NoTypeBits(last'.mode))
          => inodes'[inode_count].mode = S_IFREG + Perm0644
       /\ (/\ last.op = "mknod" /\ last.err = "OK" /\ NoTypeBits(last.mode)
           /\ last.idx < 0
           /\ nops' = nops + 1 /\ last'.op \in {"write", "read"}
           /\ last'.path = last.path)
          => last'.err # "EISDIR"]_vars

\* the inodes a path names: those that have it as passed or with its
\* trailing slashes trimmed
NamedBy(p) == Named(p) \cup Named(TrimSlashes(p))

\* C28: a read or write of a path that names no inode returns -ENOENT, one
\* of a path that names a directory returns -EISDIR, and in both cases the
\* inode table with its timestamps, the bitmap and every block are
\* unchanged.
C28_ReadWriteRefused ==
    [][(nops' = nops + 1 /\ last'.op \in {"read", "write"}) =>
          /\ NamedBy(last'.path) = {} =>
                (last'.err = "ENOENT" /\ UNCHANGED <<inode_count, inodes, disk, meta>>)
          /\ (/\ NamedBy(last'.path) # {}
              /\ \A i \in NamedBy(last'.path) : HasBit(inodes[i].mode, S_IFDIR))
             => (last'.err = "EISDIR" /\ UNCHANGED <<inode_count, inodes, disk, meta>>)]_vars

\* C29: a read of a regular file returns 0 when offset >= size; otherwise it
\* returns min(size, file size - offset) bytes, or only the bytes up to the
\* end of the block map if that ends earlier; and each byte returned is the
\* byte last written at its position.
C29_ReadResult ==
    (/\ last.op = "read" /\ last.idx >= 0
     /\ HasBit(inodes[last.idx].mode, S_IFREG))
    => LET n     == inodes[last.idx]
           want  == Min(last.size, n.size - last.offset)
           avail == n.block_count * BLOCK_SIZE - last.offset
       IN /\ last.err = "OK"
          /\ Len(last.data) = last.ret
          /\ last.ret = IF last.offset >= n.size THEN 0
                        ELSE IF avail < 0 THEN 0
                        ELSE Min(want, avail)
          /\ \A j \in 1 .. last.ret :
                content[last.idx][last.offset + j - 1] # -1
                => last.data[j] = content[last.idx][last.offset + j - 1]

\* C30: alloc_block returns the lowest block of [FIRST_DATA_BLOCK,
\* BLOCK_COUNT) whose bitmap bit is 0, sets that bit and zero-fills that
\* block and changes no other bit and no other block; when no bit of the
\* range is 0 it returns -ENOSPC and changes nothing; it never returns a
\* block below FIRST_DATA_BLOCK.
C30_AllocBlock ==
    [][(nops' = nops + 1 /\ last'.op = "alloc") =>
          LET free == {i \in DataBlocks : bitmap_get(disk[0], i) = 0}
              b    == last'.ret
          IN IF free = {}
             THEN last'.err = "ENOSPC" /\ UNCHANGED <<disk, meta>>
             ELSE /\ last'.err = "OK"
                  /\ b \in free /\ \A k \in free : b <= k
                  /\ b >= FIRST_DATA_BLOCK
                  /\ bitmap_get(disk'[0], b) = 1
                  /\ disk'[b] = ZeroBlock
                  /\ \A i \in 0 .. (8 * BLOCK_SIZE - 1) :
                        i # b => bitmap_get(disk'[0], i) = bitmap_get(disk[0], i)
                  /\ \A k \in ByteBlocks \ {0, b} : disk'[k] = disk[k]
                  /\ meta' = meta]_vars

\* C30 witness: alloc_block passed over an allocated block, took a block
\* above FIRST_DATA_BLOCK and left a higher one free
C30_Witness ==
    /\ last.op = "alloc" /\ last.ret > FIRST_DATA_BLOCK
    /\ \E k \in DataBlocks : k > last.ret /\ bitmap_get(disk[0], k) = 0

\* C31: free_block(n) of an allocated n in [FIRST_DATA_BLOCK, BLOCK_COUNT)
\* clears its bit and zero-fills the block, changing no other bit or block;
\* of a free n in that range it changes nothing; and of any n outside that
\* range it changes neither the bitmap nor any block.
C31_FreeBlock ==
    [][(nops' = nops + 1 /\ last'.op = "free") =>
          LET n == last'.bnum
          IN IF n \in DataBlocks /\ bitmap_get(disk[0], n) = 1
             THEN /\ bitmap_get(disk'[0], n) = 0
                  /\ disk'[n] = ZeroBlock
                  /\ \A i \in 0 .. (8 * BLOCK_SIZE - 1) :
                        i # n => bitmap_get(disk'[0], i) = bitmap_get(disk[0], i)
                  /\ \A k \in ByteBlocks \ {0, n} : disk'[k] = disk[k]
                  /\ meta' = meta
             ELSE UNCHANGED <<disk, meta>>]_vars

\* C32: the bitmap bit of block 0 is set in every state from the mount on,
\* whatever the size of the image file was before the mount.
C32_BlockZeroReserved == bitmap_get(disk[0], 0) = 1

\* C33: every regular-file inode has size <= block_count * BLOCK_SIZE; and
\* a write of n bytes at offset 0 to an empty file that returned n leaves
\* block_count = ceil(n / BLOCK_SIZE) and size = n.
C33_SizeWithinBlocks ==
    [][/\ \A i \in Slots :
             (i < inode_count' /\ HasBit(inodes'[i].mode, S_IFREG))
             => inodes'[i].size <= inodes'[i].block_count * BLOCK_SIZE
       /\ (/\ nops' = nops + 1 /\ last'.op = "write" /\ last'.err = "OK"
           /\ last'.offset = 0 /\ last'.ret = last'.size
           /\ inodes[last'.idx].size = 0 /\ inodes[last'.idx].block_count = 0)
          => (/\ inodes'[last'.idx].block_count = CeilDiv(last'.size, BLOCK_SIZE)
              /\ inodes'[last'.idx].size = last'.size)]_vars

\* C34: what a read returns does not depend on the bytes written to other
\* files, removed or not: every byte it returns at a position of the file
\* that was never written is zero.
C34_UnwrittenReadsZero ==
    (last.op = "read" /\ last.err = "OK" /\ last.idx >= 0) =>
        \A j \in 1 .. last.ret :
            content[last.idx][last.offset + j - 1] = -1 => last.data[j] = 0

\* C35: a read that returns a count changes no inode field but the atime
\* of the inode read, no other inode, no bitmap bit and no data block; and
\* access, getattr and readdir change nothing at all.
C35_ReadFrame ==
    [][/\ (nops' = nops + 1 /\ last'.op = "read" /\ last'.err = "OK") =>
             /\ UNCHANGED <<inode_count, disk>>
             /\ \A i \in Slots :
                   IF i = last'.idx
                   THEN inodes'[i] = [inodes[i] EXCEPT !.atime = inodes'[i].atime]
                   ELSE inodes'[i] = inodes[i]
       /\ (nops' = nops + 1 /\ last'.op \in {"access", "getattr", "readdir"})
          => UNCHANGED <<inode_count, inodes, disk, meta>>]_vars

\* C35 witness: a read returned bytes and moved the atime of the file past
\* its mtime
C35_Witness ==
    /\ last.op = "read" /\ last.err = "OK" /\ last.ret > 0
    /\ inodes[last.idx].atime > inodes[last.idx].mtime

\* C36: bitmap_get of bit i after bitmap_put(bm, i, v) returns 1 if v is not
\* 0 and 0 if it is, for every i >= 0, and bitmap_put changes no other bit;
\* for i < 0 bitmap_get returns 0 and bitmap_put changes nothing.
C36_BitmapPutGet ==
    [][(nops' = nops + 1 /\ last'.op = "put") =>
          IF last'.bnum < 0
          THEN last'.ret = 0 /\ disk' = disk
          ELSE /\ last'.ret = IF last'.val # 0 THEN 1 ELSE 0
               /\ \A k \in 0 .. (8 * BLOCK_SIZE - 1) :
                     k # last'.bnum
                     => bitmap_get(disk'[0], k) = bitmap_get(disk[0], k)
               /\ \A b \in ByteBlocks \ {0} : disk'[b] = disk[b]]_vars

\* C36 witness: a set bit was cleared while another bit of its byte stayed
\* set
C36_Witness ==
    /\ last.op = "put" /\ last.val = 0 /\ last.bnum >= 0 /\ last.ret = 0
    /\ \E k \in 0 .. 7 :
          /\ k # last.bnum /\ k \div 8 = last.bnum \div 8
          /\ bitmap_get(disk[0], k) = 1

\* C37: no two inodes in [0, inode_count) have the same path, and
\* inode_lookup of the path of a stored inode finds that inode.
C37_UniquePaths ==
    \A i \in Live :
        /\ \A j \in Live : inodes[i].path = inodes[j].path => i = j
        /\ inode_lookup(FS, inodes[i].path) = i

RECURSIVE SumBlockCount(_)
SumBlockCount(S) ==
    IF S = {} THEN 0
    ELSE LET i == CHOOSE i \in S : TRUE
         IN inodes[i].block_count + SumBlockCount(S \ {i})

\* C38: every data block whose bitmap bit is set is in the active block map
\* of some inode, and the number of set bits of the data blocks equals the
\* sum of block_count over the inodes.
C38_NoLeakedBlock ==
    /\ \A n \in DataBlocks :
          bitmap_get(disk[0], n) = 1 => \E i \in Live : n \in ActiveBlocks(i)
    /\ Cardinality({n \in DataBlocks : bitmap_get(disk[0], n) = 1})
          = SumBlockCount(Live)

\* index of the last "/" of p
LastSlash(p) == CHOOSE k \in 1 .. Len(p) : p[k] = "/" /\ \A j \in (k + 1) .. Len(p) : p[j] # "/"

\* the path of the directory that holds p: p without its last component
ParentPath(p) ==
    LET q == TrimSlashes(p)
    IN IF LastSlash(q) = 1 THEN <<"/">> ELSE SubSeq(q, 1, LastSlash(q) - 1)

\* C39: for every inode whose path is not "/", the parent path is the path
\* of an existing directory inode.
C39_TreeConnected ==
    \A i \in Live :
        inodes[i].path # <<"/">>
        => \E d \in Live : /\ inodes[d].path = ParentPath(inodes[i].path)
                           /\ HasBit(inodes[d].mode, S_IFDIR)

\* C40: every call of nufs_write and nufs_read terminates: each iteration
\* of its loop either leaves the loop or advances the byte counter by at
\* least one byte, the loop body runs at most size times, and a call that
\* is in its loop leaves it.
C40_LoopsTerminate ==
    /\ [][InLoop => (~InLoop' \/ last'.ret >= last.ret + 1)]_vars
    /\ [](last.op \in {"write", "read"} => last.iters <= last.size)
    /\ (InLoop ~> ~InLoop)

\* C40 witness: a write that began inside a block ran its loop body for
\* more than one block and returned every byte written
C40_Witness ==
    /\ last.op = "write" /\ last.how = "end" /\ last.err = "OK"
    /\ last.offset % BLOCK_SIZE # 0
    /\ last.iters >= 2 /\ last.ret = last.size
====
